---- MODULE Spec2Model ----
(***************************************************************************)
(* Model of modules/trainer.py: Trainer.fit and the two per-epoch loops    *)
(* _run_one_epoch and _eval_one_epoch, one action per statement group.     *)
(* The optimizer, the metric accumulator, the scalar writer and the        *)
(* checkpoint directory are modelled by the calls the trainer makes on     *)
(* them.  A batch is identified by <<epoch, index>>.                       *)
(***************************************************************************)
EXTENDS Integers, Sequences, FiniteSets

\* ---- bounds of the model ------------------------------------------------
MaxEpochs == 3
MaxAccum == 3
MaxBatches == 5
MaxValBatches == 2

\* validation mIoU values in hundredths (0.10 -> 10)
ValScores == {0, 10, 20, 25}

\* ---- program constants --------------------------------------------------
\* modulus of the trailing-step test `idx % 4 == 0`
TrailingModulus == 4
\* the value of `idx` before the for statement has bound it
Unbound == -1

VARIABLES
    \* constructor arguments / call argument
    epochs, accumulate_gradient, nTrain, nVal,
    \* control
    pc, failed, raisedAt,
    \* locals of fit
    pos, epoch, iters, val_iters, best_iou, train_iou,
    \* locals of _run_one_epoch
    idx, r_iters,
    \* locals of _eval_one_epoch
    vidx, e_iters, e_best, val_iou, val_preds,
    \* collaborators
    mode, grad, stepLog, metric, writer, disk,
    \* history
    discarded, gradCalls, stepsInEpoch, loopSteps, trailing,
    trace, valSeen, bestIn, paramsAtEval

cfg == <<epochs, accumulate_gradient, nTrain, nVal>>
ctl == <<pc, failed, raisedAt>>
fitLocals == <<pos, epoch, iters, val_iters, best_iou, train_iou>>
runLocals == <<idx, r_iters>>
evalLocals == <<vidx, e_iters, e_best, val_iou, val_preds>>
optim == <<grad, stepLog, discarded, gradCalls>>
stepHist == <<stepsInEpoch, loopSteps, trailing>>
evalHist == <<valSeen, bestIn, paramsAtEval>>
vars == <<cfg, ctl, fitLocals, runLocals, evalLocals, mode, optim, metric,
          writer, disk, stepHist, trace, evalHist>>

\* ---- helpers ------------------------------------------------------------
Range(s) == {s[i] : i \in 1..Len(s)}

\* a batch left in the metric object by an earlier user of it
Stale == <<0, 0>>

\* range(1, epochs + 1) as the sequence the for statement walks
EpochRangeZero(n) == [i \in 1..n |-> i - 1]
EpochRange(n) == [i \in 1..n |-> i]

\* `idx % accumulate_gradient == 0`
ZeroDue(i, k) == i % k = 0

\* `(idx + 1) % accumulate_gradient == 0`
StepDueOffByOne(i, k) == i % k = 0
StepDue(i, k) == (i + 1) % k = 0

\* `idx % 4 == 0`
TrailingDue(i) == i % TrailingModulus = 0

\* `val_iou > best_iou`
IsBetterOrEqual(v, b) == v >= b
IsBetter(v, b) == v > b

\* the iteration counter _run_one_epoch hands back to fit
ReturnedItersReset(i) == -1
ReturnedIters(i) == i

\* the best score _eval_one_epoch hands back to fit
ReturnedBestStale(b, old) == old
ReturnedBest(b, old) == b

\* where control goes when a call raises: no frame has a handler
PropagateCaught(p) == "fit_loop"
Propagate(p) == "raised"

\* number of optimizer steps that used the gradient of batch b
Applied(b, log) == Cardinality({i \in 1..Len(log) : b \in Range(log[i])})

\* optimizer.step(): the parameters move by the gradient held now
OptimizerStep(log, g) == Append(log, g)

\* model.state_dict()
StateDict == Len(stepLog)

\* metric accumulator
MetricReset(m) == <<>>
MetricUpdate(m, b) == Append(m, b)
MetricGetScore(m) == m

\* checkpoint paths and torch.save
BestPath == <<"model_best.pth.tar">>
EpochPath(e) == <<"model_", e, ".pth.tar">>
Saved(d, path, sd) ==
    [p \in (DOMAIN d) \cup {path} |->
        IF p = path THEN [ok |-> TRUE, params |-> sd] ELSE d[p]]
Torn(d, path) ==
    [p \in (DOMAIN d) \cup {path} |->
        IF p = path THEN [ok |-> FALSE, params |-> 0] ELSE d[p]]

\* gradients cleared by zero_grad() that no step has used
Lost(g, log) == {b \in Range(g) : Applied(b, log) = 0}

\* ---- initial state: a constructed Trainer, fit not yet called -----------
Init ==
    /\ epochs \in 0..MaxEpochs
    /\ accumulate_gradient \in 1..MaxAccum
    /\ nTrain \in 0..MaxBatches
    /\ nVal \in 0..MaxValBatches
    /\ pc = "fit"
    /\ failed = FALSE
    /\ raisedAt = "none"
    /\ pos = 0 /\ epoch = 0 /\ iters = 0 /\ val_iters = 0 /\ best_iou = 0
    /\ train_iou = <<>>
    /\ idx = Unbound /\ r_iters = 0
    /\ vidx = Unbound /\ e_iters = 0 /\ e_best = 0 /\ val_iou = 0
    /\ val_preds = <<>>
    /\ mode = "train"
    /\ grad = <<>> /\ stepLog = <<>>
    /\ metric \in {<<>>, <<Stale>>}
    /\ writer = <<>>
    /\ disk = <<>>
    /\ discarded = {} /\ gradCalls = 0
    /\ stepsInEpoch = 0 /\ loopSteps = <<>> /\ trailing = FALSE
    /\ trace = <<>> /\ valSeen = <<>> /\ bestIn = <<>> /\ paramsAtEval = <<>>

\* ---- fit ----------------------------------------------------------------
\* lines 36-39
FitStart ==
    /\ pc = "fit"
    /\ pc' = "fit_loop"
    /\ iters' = -1 /\ val_iters' = -1 /\ best_iou' = 0
    /\ pos' = 0
    /\ UNCHANGED <<cfg, failed, raisedAt, epoch, train_iou, runLocals,
                   evalLocals, mode, optim, metric, writer, disk, stepHist,
                   trace, evalHist>>

\* line 41: the for statement takes the next epoch number or ends
FitLoop ==
    /\ pc = "fit_loop"
    /\ IF pos < Len(EpochRange(epochs))
          THEN /\ pos' = pos + 1
               /\ epoch' = EpochRange(epochs)[pos + 1]
               /\ pc' = "train_begin"
          ELSE /\ pc' = "done"
               /\ UNCHANGED <<pos, epoch>>
    /\ UNCHANGED <<cfg, failed, raisedAt, iters, val_iters, best_iou,
                   train_iou, runLocals, evalLocals, mode, optim, metric,
                   writer, disk, stepHist, trace, evalHist>>

\* ---- _run_one_epoch -----------------------------------------------------
\* lines 42, 67-76: call, model.train(), metric.reset(), batch_loss = 0
TrainBeginNoReset ==
    /\ pc = "train_begin"
    /\ pc' = "train_next"
    /\ r_iters' = iters
    /\ idx' = Unbound
    /\ mode' = "train"
    /\ metric' = metric
    /\ stepsInEpoch' = 0 /\ loopSteps' = <<>> /\ trailing' = FALSE
    /\ UNCHANGED <<cfg, failed, raisedAt, fitLocals, evalLocals, optim,
                   writer, disk, trace, evalHist>>
TrainBegin ==
    /\ pc = "train_begin"
    /\ pc' = "train_next"
    /\ r_iters' = iters
    /\ idx' = Unbound
    /\ mode' = "train"
    /\ metric' = MetricReset(metric)
    /\ stepsInEpoch' = 0 /\ loopSteps' = <<>> /\ trailing' = FALSE
    /\ UNCHANGED <<cfg, failed, raisedAt, fitLocals, evalLocals, optim,
                   writer, disk, trace, evalHist>>

\* lines 78-79: next batch of the loader, iters += 1, or leave the loop
TrainNext ==
    /\ pc = "train_next"
    /\ LET n == IF idx = Unbound THEN 0 ELSE idx + 1 IN
       IF n < nTrain
          THEN /\ idx' = n
               /\ r_iters' = r_iters + 1
               /\ pc' = "train_forward"
          ELSE /\ pc' = "train_trailing"
               /\ UNCHANGED <<idx, r_iters>>
    /\ UNCHANGED <<cfg, failed, raisedAt, fitLocals, evalLocals, mode, optim,
                   metric, writer, disk, stepHist, trace, evalHist>>

\* lines 82-88: to device, forward pass, loss
TrainForward ==
    /\ pc = "train_forward"
    /\ pc' = "train_zero"
    /\ UNCHANGED <<cfg, failed, raisedAt, fitLocals, runLocals, evalLocals,
                   mode, optim, metric, writer, disk, stepHist, trace,
                   evalHist>>

\* lines 89-90
TrainZeroGrad ==
    /\ pc = "train_zero"
    /\ pc' = "train_backward"
    /\ IF ZeroDue(idx, accumulate_gradient)
          THEN /\ discarded' = discarded \cup Lost(grad, stepLog)
               /\ grad' = <<>>
               /\ gradCalls' = gradCalls + 1
          ELSE UNCHANGED <<grad, discarded, gradCalls>>
    /\ UNCHANGED <<cfg, failed, raisedAt, fitLocals, runLocals, evalLocals,
                   mode, stepLog, metric, writer, disk, stepHist, trace,
                   evalHist>>

\* line 91: loss.backward() adds this batch's gradient
TrainBackward ==
    /\ pc = "train_backward"
    /\ pc' = "train_step"
    /\ grad' = Append(grad, <<epoch, idx>>)
    /\ gradCalls' = gradCalls + 1
    /\ UNCHANGED <<cfg, failed, raisedAt, fitLocals, runLocals, evalLocals,
                   mode, stepLog, discarded, metric, writer, disk, stepHist,
                   trace, evalHist>>

\* lines 92-93
TrainOptStep ==
    /\ pc = "train_step"
    /\ pc' = "train_metric"
    /\ IF StepDue(idx, accumulate_gradient)
          THEN /\ stepLog' = OptimizerStep(stepLog, grad)
               /\ stepsInEpoch' = stepsInEpoch + 1
               /\ loopSteps' = Append(loopSteps, idx)
          ELSE UNCHANGED <<stepLog, stepsInEpoch, loopSteps>>
    /\ UNCHANGED <<cfg, failed, raisedAt, fitLocals, runLocals, evalLocals,
                   mode, grad, discarded, gradCalls, metric, writer, disk,
                   trailing, trace, evalHist>>

\* lines 96-98: softmax, argmax, metric.update
TrainMetricUpdate ==
    /\ pc = "train_metric"
    /\ pc' = "train_log"
    /\ metric' = MetricUpdate(metric, <<epoch, idx>>)
    /\ UNCHANGED <<cfg, failed, raisedAt, fitLocals, runLocals, evalLocals,
                   mode, optim, writer, disk, stepHist, trace, evalHist>>

\* lines 101-104: batch_loss, writer.add_scalar("loss/train_loss", .., iters)
TrainLog ==
    /\ pc = "train_log"
    /\ pc' = "train_postfix"
    /\ writer' = Append(writer, [key |-> "loss/train_loss",
                                 value |-> <<<<epoch, idx>>>>,
                                 step |-> r_iters])
    /\ UNCHANGED <<cfg, failed, raisedAt, fitLocals, runLocals, evalLocals,
                   mode, optim, metric, disk, stepHist, trace, evalHist>>

\* lines 107-109: progress bar, metric.print_score() only reads
TrainPostfix ==
    /\ pc = "train_postfix"
    /\ pc' = "train_next"
    /\ UNCHANGED <<cfg, failed, raisedAt, fitLocals, runLocals, evalLocals,
                   mode, optim, metric, writer, disk, stepHist, trace,
                   evalHist>>

\* lines 111-113: with an empty loader idx is unbound and the test raises
TrainTrailing ==
    /\ pc = "train_trailing"
    /\ IF idx = Unbound
          THEN /\ pc' = Propagate(pc)
               /\ failed' = TRUE
               /\ raisedAt' = pc
               /\ UNCHANGED <<optim, stepHist>>
          ELSE /\ pc' = "train_log_miou"
               /\ UNCHANGED <<failed, raisedAt>>
               /\ IF TrailingDue(idx)
                     THEN /\ stepLog' = OptimizerStep(stepLog, grad)
                          /\ discarded' = discarded
                          /\ grad' = <<>>
                          /\ gradCalls' = gradCalls + 1
                          /\ stepsInEpoch' = stepsInEpoch + 1
                          /\ trailing' = TRUE
                          /\ UNCHANGED loopSteps
                     ELSE UNCHANGED <<optim, stepHist>>
    /\ UNCHANGED <<cfg, fitLocals, runLocals, evalLocals, mode, metric,
                   writer, disk, trace, evalHist>>

\* line 116
TrainLogMiou ==
    /\ pc = "train_log_miou"
    /\ pc' = "train_return"
    /\ writer' = Append(writer, [key |-> "mIoU/train_miou",
                                 value |-> MetricGetScore(metric),
                                 step |-> epoch])
    /\ UNCHANGED <<cfg, failed, raisedAt, fitLocals, runLocals, evalLocals,
                   mode, optim, metric, disk, stepHist, trace, evalHist>>

\* lines 118, 42: return to fit
TrainReturn ==
    /\ pc = "train_return"
    /\ pc' = "eval_begin"
    /\ train_iou' = MetricGetScore(metric)
    /\ iters' = ReturnedIters(r_iters)
    /\ trace' = Append(trace, <<"train", epoch>>)
    /\ UNCHANGED <<cfg, failed, raisedAt, pos, epoch, val_iters, best_iou,
                   runLocals, evalLocals, mode, optim, metric, writer, disk,
                   stepHist, evalHist>>

\* ---- _eval_one_epoch ----------------------------------------------------
\* lines 44, 132-137: call, model.eval(), metric.reset(), empty buffers
EvalBegin ==
    /\ pc = "eval_begin"
    /\ pc' = "eval_next"
    /\ e_iters' = val_iters
    /\ e_best' = best_iou
    /\ vidx' = Unbound
    /\ val_preds' = <<>>
    /\ mode' = "eval"
    /\ metric' = MetricReset(metric)
    /\ bestIn' = Append(bestIn, best_iou)
    /\ UNCHANGED <<cfg, failed, raisedAt, fitLocals, runLocals, val_iou,
                   optim, writer, disk, stepHist, trace, valSeen,
                   paramsAtEval>>

\* lines 141-142: next validation batch, iters += 1, or leave the loop
EvalNext ==
    /\ pc = "eval_next"
    /\ LET n == IF vidx = Unbound THEN 0 ELSE vidx + 1 IN
       IF n < nVal
          THEN /\ vidx' = n
               /\ e_iters' = e_iters + 1
               /\ pc' = "eval_forward"
          ELSE /\ pc' = "eval_score"
               /\ UNCHANGED <<vidx, e_iters>>
    /\ UNCHANGED <<cfg, failed, raisedAt, fitLocals, runLocals, e_best,
                   val_iou, val_preds, mode, optim, metric, writer, disk,
                   stepHist, trace, evalHist>>

\* lines 145-157: forward pass and loss under no_grad, buffer predictions
EvalForwardTrains ==
    /\ pc = "eval_forward"
    /\ pc' = "eval_log"
    /\ val_preds' = Append(val_preds, <<epoch, vidx>>)
    /\ grad' = Append(grad, <<epoch, vidx>>)
    /\ gradCalls' = gradCalls + 1
    /\ stepLog' = OptimizerStep(stepLog, grad')
    /\ UNCHANGED <<cfg, failed, raisedAt, fitLocals, runLocals, vidx,
                   e_iters, e_best, val_iou, mode, discarded, metric, writer,
                   disk, stepHist, trace, evalHist>>
EvalForward ==
    /\ pc = "eval_forward"
    /\ pc' = "eval_log"
    /\ val_preds' = Append(val_preds, <<epoch, vidx>>)
    /\ UNCHANGED <<cfg, failed, raisedAt, fitLocals, runLocals, vidx,
                   e_iters, e_best, val_iou, mode, optim, metric, writer,
                   disk, stepHist, trace, evalHist>>

\* lines 160-163: batch_loss, writer.add_scalar("loss/val_loss", .., iters)
EvalLog ==
    /\ pc = "eval_log"
    /\ pc' = "eval_next"
    /\ writer' = Append(writer, [key |-> "loss/val_loss",
                                 value |-> <<<<epoch, vidx>>>>,
                                 step |-> e_iters])
    /\ UNCHANGED <<cfg, failed, raisedAt, fitLocals, runLocals, evalLocals,
                   mode, optim, metric, disk, stepHist, trace, evalHist>>

\* lines 165-168: np.concatenate raises on an empty list; mean_iou_score
\* yields some score, which is logged under the epoch number
EvalScore ==
    /\ pc = "eval_score"
    /\ IF val_preds = <<>>
          THEN /\ pc' = Propagate(pc)
               /\ failed' = TRUE
               /\ raisedAt' = pc
               /\ UNCHANGED <<val_iou, writer, evalHist>>
          ELSE /\ pc' = "eval_best"
               /\ UNCHANGED <<failed, raisedAt>>
               /\ \E v \in ValScores :
                    /\ val_iou' = v
                    /\ writer' = Append(writer, [key |-> "mIoU/val_miou",
                                                 value |-> <<v>>,
                                                 step |-> epoch])
                    /\ valSeen' = Append(valSeen, v)
               /\ paramsAtEval' = Append(paramsAtEval, StateDict)
               /\ UNCHANGED bestIn
    /\ UNCHANGED <<cfg, fitLocals, runLocals, vidx, e_iters, e_best,
                   val_preds, mode, optim, metric, disk, stepHist, trace>>

\* lines 171-174
EvalBest ==
    /\ pc = "eval_best"
    /\ pc' = "eval_return"
    /\ IF IsBetter(val_iou, e_best)
          THEN /\ disk' = Saved(disk, BestPath, StateDict)
               /\ e_best' = val_iou
               /\ trace' = Append(trace, <<"best", epoch>>)
          ELSE UNCHANGED <<disk, e_best, trace>>
    /\ UNCHANGED <<cfg, failed, raisedAt, fitLocals, runLocals, vidx,
                   e_iters, val_iou, val_preds, mode, optim, metric, writer,
                   stepHist, evalHist>>

\* lines 176, 44: return to fit
EvalReturn ==
    /\ pc = "eval_return"
    /\ pc' = "print"
    /\ val_iters' = e_iters
    /\ best_iou' = ReturnedBest(e_best, best_iou)
    /\ trace' = Append(trace, <<"eval", epoch>>)
    /\ UNCHANGED <<cfg, failed, raisedAt, pos, epoch, iters, train_iou,
                   runLocals, evalLocals, mode, optim, metric, writer, disk,
                   stepHist, evalHist>>

\* ---- rest of the epoch body of fit --------------------------------------
\* lines 48-52
PrintSummary ==
    /\ pc = "print"
    /\ pc' = "save_epoch"
    /\ trace' = Append(trace, <<"print", epoch>>)
    /\ UNCHANGED <<cfg, failed, raisedAt, fitLocals, runLocals, evalLocals,
                   mode, optim, metric, writer, disk, stepHist, evalHist>>

\* lines 55, 178-179
SaveEpoch ==
    /\ pc = "save_epoch"
    /\ pc' = "fit_loop"
    /\ disk' = Saved(disk, EpochPath(epoch), StateDict)
    /\ trace' = Append(trace, <<"save", epoch>>)
    /\ UNCHANGED <<cfg, failed, raisedAt, fitLocals, runLocals, evalLocals,
                   mode, optim, metric, writer, stepHist, evalHist>>

\* ---- exceptions ---------------------------------------------------------
\* the statement group at pc calls a collaborator
CallsCollaborator ==
    \/ pc \in {"train_begin", "train_forward", "train_backward",
               "train_metric", "train_log", "train_postfix",
               "train_log_miou", "train_return", "eval_begin",
               "eval_forward", "eval_log", "save_epoch"}
    \/ pc = "train_next" /\ nTrain > 0
    \/ pc = "eval_next" /\ nVal > 0
    \/ pc = "train_zero" /\ ZeroDue(idx, accumulate_gradient)
    \/ pc = "train_step" /\ StepDue(idx, accumulate_gradient)
    \/ pc = "train_trailing" /\ idx # Unbound /\ TrailingDue(idx)
    \/ pc = "eval_score" /\ val_preds # <<>>
    \/ pc = "eval_best" /\ IsBetter(val_iou, e_best)

\* the path torch.save is writing at pc, if any
SavingTo ==
    IF pc = "save_epoch" THEN {EpochPath(epoch)}
    ELSE IF pc = "eval_best" THEN {BestPath}
    ELSE {}

\* a collaborator call raises; nothing in fit or the epoch functions catches
\* it.  A save that fails may leave a torn file behind.
Raise ==
    /\ CallsCollaborator
    /\ pc' = Propagate(pc)
    /\ failed' = TRUE
    /\ raisedAt' = pc
    /\ \/ disk' = disk
       \/ \E p \in SavingTo : disk' = Torn(disk, p)
    /\ UNCHANGED <<cfg, fitLocals, runLocals, evalLocals, mode, optim,
                   metric, writer, stepHist, trace, evalHist>>

Step == FitStart \/ FitLoop \/ TrainBegin \/ TrainNext \/ TrainForward
        \/ TrainZeroGrad \/ TrainBackward \/ TrainOptStep
        \/ TrainMetricUpdate \/ TrainLog \/ TrainPostfix \/ TrainTrailing
        \/ TrainLogMiou \/ TrainReturn \/ EvalBegin \/ EvalNext
        \/ EvalForward \/ EvalLog \/ EvalScore \/ EvalBest \/ EvalReturn
        \/ PrintSummary \/ SaveEpoch

Next == Step \/ Raise

Spec == Init /\ [][Next]_vars

\* the run when no collaborator raises; the interpreter keeps executing
FairSpec == Init /\ [][Step]_vars /\ WF_vars(Step)

\* ---- vocabulary of the properties ---------------------------------------
\* the statement group control is at, or was at when the run was aborted
Where == IF pc = "raised" THEN raisedAt ELSE pc

TrainLoopPcs == {"train_forward", "train_zero", "train_backward",
                 "train_step", "train_metric"}
EvalPcs == {"eval_begin", "eval_next", "eval_forward", "eval_log",
            "eval_score", "eval_best", "eval_return"}
\* this epoch's _run_one_epoch is past its trailing-step test
AfterTrailing ==
    /\ epoch >= 1
    /\ Where \in {"train_log_miou", "train_return", "print", "save_epoch",
                  "fit_loop", "done"} \cup EvalPcs
\* this epoch's _eval_one_epoch is past its best-model test
AfterBest ==
    Where \in {"eval_return", "print", "save_epoch", "fit_loop", "done"}
BestDecided(e) == e < epoch \/ (e = epoch /\ AfterBest)
WroteBest(e) == \E i \in 1..Len(trace) : trace[i] = <<"best", e>>
EpochBatches(e, n) == [i \in 1..n |-> <<e, i - 1>>]
Keyed(k) == SelectSeq(writer, LAMBDA r : r.key = k)
Events(name) == SelectSeq(trace, LAMBDA ev : ev[1] = name)
Phases == SelectSeq(trace, LAMBDA ev : ev[1] # "best")
PhaseName == <<"train", "eval", "print", "save">>
ExpectedPhases(n) ==
    [i \in 1..(4 * n) |-> <<PhaseName[((i - 1) % 4) + 1], ((i - 1) \div 4) + 1>>]
IsPrefix(s, t) == Len(s) <= Len(t) /\ \A i \in 1..Len(s) : s[i] = t[i]
MaxOf(S) == CHOOSE m \in S : \A x \in S : x <= m
TrainedBatches == {<<e, i>> : e \in 1..MaxEpochs + 1, i \in 0..MaxBatches}

\* ---- C1 -----------------------------------------------------------------
\* C1: in every epoch whose best-model test has run, model_best was written
\* in that epoch if and only if the epoch's validation mIoU is strictly
\* greater than the best_iou passed in (0 for the first epoch); for the
\* scores 0.10, 0.25, 0.20 it is written in epochs 1 and 2 only.
C1_BestWrittenIffStrictlyBetter ==
    /\ \A e \in 1..Len(valSeen) :
          BestDecided(e) => (WroteBest(e) <=> valSeen[e] > bestIn[e])
    /\ Len(bestIn) >= 1 => bestIn[1] = 0
    /\ (valSeen = <<10, 25, 20>> /\ BestDecided(3))
          => (WroteBest(1) /\ WroteBest(2) /\ ~WroteBest(3))
C1_Witness ==
    /\ pc = "done"
    /\ valSeen = <<10, 25, 20>>
    /\ WroteBest(1) /\ WroteBest(2) /\ ~WroteBest(3)

\* ---- C2 -----------------------------------------------------------------
\* C2: once _run_one_epoch is past the trailing test, the optimizer steps of
\* the epoch number floor(nTrain / k) plus one when (nTrain - 1) is a
\* multiple of 4; steps inside the loop are at least k batches apart and
\* never more than one per k batches seen.
C2_StepCount ==
    /\ (AfterTrailing /\ nTrain >= 1) =>
          stepsInEpoch = (nTrain \div accumulate_gradient)
                         + (IF (nTrain - 1) % 4 = 0 THEN 1 ELSE 0)
    /\ \A i \in 1..(Len(loopSteps) - 1) :
          loopSteps[i + 1] - loopSteps[i] >= accumulate_gradient
    /\ idx # Unbound => Len(loopSteps) * accumulate_gradient <= idx + 1
C2_Witness ==
    /\ pc = "train_return"
    /\ nTrain = 5 /\ accumulate_gradient = 2
    /\ stepsInEpoch = 3 /\ Len(loopSteps) = 2

\* ---- C3 -----------------------------------------------------------------
\* C3: the trailing step is issued only when nTrain is not a multiple of k
\* and the last index is a multiple of 4; when k divides nTrain there is no
\* trailing step and the epoch has exactly nTrain / k optimizer steps.
C3_TrailingOnlyWhenIncomplete ==
    /\ trailing => (nTrain % accumulate_gradient # 0 /\ TrailingDue(idx))
    /\ (AfterTrailing /\ nTrain >= 1 /\ nTrain % accumulate_gradient = 0) =>
          (~trailing /\ stepsInEpoch = nTrain \div accumulate_gradient)

\* ---- C4 -----------------------------------------------------------------
\* C4: with non-empty loaders and no collaborator error fit reaches its end;
\* the phases completed so far are always a prefix of train, eval, print,
\* save for epoch 1, 2, .. epochs, and are all of them at the end; a
\* model_best write sits between the train and the eval return of its
\* epoch; at the end every model_<epoch> file exists.  No statement of the
\* trainer reads the val_epoch option, so it is not part of the state.
C4_FitRunsEpochsInOrder ==
    /\ (nTrain >= 1 /\ nVal >= 1) ~> (pc = "done")
    /\ [](IsPrefix(Phases, ExpectedPhases(epochs)))
    /\ [](\A i \in 1..Len(trace) : trace[i][1] = "best" =>
            /\ i > 1 /\ trace[i - 1] = <<"train", trace[i][2]>>
            /\ i < Len(trace) => trace[i + 1] = <<"eval", trace[i][2]>>)
    /\ []((pc = "done" /\ nTrain >= 1 /\ nVal >= 1) =>
            /\ Phases = ExpectedPhases(epochs)
            /\ \A e \in 1..epochs :
                  /\ EpochPath(e) \in DOMAIN disk
                  /\ disk[EpochPath(e)].ok
            /\ DOMAIN disk \subseteq {EpochPath(e) : e \in 1..epochs} \cup {BestPath})
C4_Witness ==
    /\ pc = "done"
    /\ epochs = 3
    /\ Len(Events("eval")) = 3
    /\ Len(Events("best")) = 2
    /\ Len(trace) = 14

\* ---- C5 -----------------------------------------------------------------
\* C5: no step taken inside _eval_one_epoch changes the parameters, the
\* accumulated gradient, or the count of zero_grad/backward calls.
C5_EvalLeavesParameters ==
    [][(pc \in EvalPcs) =>
          (/\ stepLog' = stepLog
           /\ grad' = grad
           /\ gradCalls' = gradCalls
           /\ discarded' = discarded)]_vars
C5_Witness ==
    /\ pc = "eval_return"
    /\ nVal = 2 /\ Len(val_preds) = 2
    /\ grad # <<>> /\ stepLog # <<>>

\* ---- C6 -----------------------------------------------------------------
\* C6: during a training epoch the metric holds exactly the batches of this
\* epoch updated so far, each once; every logged train mIoU and the value
\* returned to fit are computed from exactly the nTrain batches of their
\* epoch.
MetricUpdatesDone ==
    IF idx = Unbound THEN 0
    ELSE IF Where \in TrainLoopPcs THEN idx ELSE idx + 1
C6_MetricOfThisEpochOnly ==
    /\ Where \in TrainLoopPcs \cup {"train_next", "train_log", "train_postfix",
                                    "train_trailing", "train_log_miou",
                                    "train_return"}
          => metric = EpochBatches(epoch, MetricUpdatesDone)
    /\ \A i \in 1..Len(writer) :
          writer[i].key = "mIoU/train_miou"
             => writer[i].value = EpochBatches(writer[i].step, nTrain)
    /\ (AfterTrailing /\ Where \notin {"train_log_miou", "train_return"})
          => train_iou = EpochBatches(epoch, nTrain)
C6_Witness ==
    /\ pc = "eval_begin"
    /\ epoch = 2 /\ nTrain = 3
    /\ train_iou = EpochBatches(2, 3)
    /\ Len(Keyed("mIoU/train_miou")) = 2

\* ---- C7 -----------------------------------------------------------------
\* C7: the n-th loss/train_loss call carries step n - 1 and the loss of the
\* n-th training batch of the run, likewise loss/val_loss for validation
\* batches; the e-th mIoU/train_miou and mIoU/val_miou calls carry step e;
\* at the end of fit there is one loss call per batch and one mIoU call of
\* each kind per epoch.
C7_LoggerSteps ==
    /\ \A i \in 1..Len(Keyed("loss/train_loss")) :
          LET r == Keyed("loss/train_loss")[i] IN
          /\ r.step = i - 1
          /\ r.value = <<<<((i - 1) \div nTrain) + 1, (i - 1) % nTrain>>>>
    /\ \A i \in 1..Len(Keyed("loss/val_loss")) :
          LET r == Keyed("loss/val_loss")[i] IN
          /\ r.step = i - 1
          /\ r.value = <<<<((i - 1) \div nVal) + 1, (i - 1) % nVal>>>>
    /\ \A i \in 1..Len(Keyed("mIoU/train_miou")) :
          Keyed("mIoU/train_miou")[i].step = i
    /\ \A i \in 1..Len(Keyed("mIoU/val_miou")) :
          Keyed("mIoU/val_miou")[i].step = i
    /\ pc = "done" =>
          /\ Len(Keyed("loss/train_loss")) = epochs * nTrain
          /\ Len(Keyed("loss/val_loss")) = epochs * nVal
          /\ Len(Keyed("mIoU/train_miou")) = epochs
          /\ Len(Keyed("mIoU/val_miou")) = epochs
C7_Witness ==
    /\ pc = "done"
    /\ epochs = 2 /\ nTrain = 3 /\ nVal = 2
    /\ Len(writer) = 14
    /\ iters = 5 /\ val_iters = 3

\* ---- C8 -----------------------------------------------------------------
\* C8: once a call has raised, control is out of fit for good: nothing is
\* processed, stepped, logged or saved afterwards and no epoch starts; the
\* failing epoch's model_<e> file exists only if the failure was in that
\* save.
C8_ExceptionEndsRun ==
    /\ [](failed => pc = "raised")
    /\ [](failed /\ raisedAt # "save_epoch"
             => EpochPath(epoch) \notin DOMAIN disk)
    /\ [][failed => UNCHANGED <<pc, epoch, idx, vidx, writer, stepLog, grad,
                                gradCalls, metric, disk, trace>>]_vars
C8_Witness ==
    /\ failed /\ pc = "raised"
    /\ raisedAt = "train_step"
    /\ epochs = 3 /\ epoch = 2 /\ idx = 1

\* ---- C9 -----------------------------------------------------------------
\* C9: no batch's gradient is used by two optimizer steps, none is cleared
\* by zero_grad before a step used it, every step uses a non-empty window,
\* and at the end of fit every training batch was used by exactly one step.
C9_EachGradientAppliedOnce ==
    /\ \A b \in TrainedBatches : Applied(b, stepLog) <= 1
    /\ discarded = {}
    /\ \A i \in 1..Len(stepLog) : stepLog[i] # <<>>
    /\ pc = "done" =>
          \A e \in 1..epochs : \A i \in 0..(nTrain - 1) :
             Applied(<<e, i>>, stepLog) = 1

\* ---- C10 ----------------------------------------------------------------
\* C10: whenever every evaluated epoch has returned to fit, best_iou is the
\* maximum of 0 and the validation scores so far, and model_best (absent
\* while best_iou is 0) holds the parameters evaluated in the first epoch
\* that scored best_iou; best_iou never decreases and changes only in an
\* epoch that wrote model_best.
FirstEpochScoring(v) ==
    CHOOSE e \in 1..Len(valSeen) :
        valSeen[e] = v /\ \A j \in 1..(e - 1) : valSeen[j] # v
C10_BestIsRunningMax ==
    /\ [](Len(Events("eval")) = Len(valSeen) /\ pc # "fit" =>
            /\ best_iou = MaxOf({0} \cup Range(valSeen))
            /\ IF best_iou > 0
                  THEN /\ BestPath \in DOMAIN disk
                       /\ disk[BestPath] =
                            [ok |-> TRUE,
                             params |-> paramsAtEval[FirstEpochScoring(best_iou)]]
                  ELSE BestPath \notin DOMAIN disk)
    /\ [][(pc # "fit") =>
            (/\ best_iou' >= best_iou
             /\ best_iou' # best_iou => WroteBest(epoch))]_vars
C10_Witness ==
    /\ pc = "done"
    /\ valSeen = <<20, 10, 25>>
    /\ best_iou = 25
    /\ paramsAtEval[1] # paramsAtEval[3]
    /\ disk[BestPath].params = paramsAtEval[3]
====
